---- MODULE Spec2Model ----
(***************************************************************************)
(* Model of the DexAggregator quoting engine:                              *)
(*   - RoutingEngine.findRoutes, TradeSimulator.simulatePath/getAmountOut, *)
(*     SwapController.getQuote/findOptimalSplit   (src/unnamed/part_013)   *)
(*   - ControllerService.getQuotes pipeline        (src/unnamed/part_014)  *)
(* BigInt arithmetic is arbitrary precision in the source; the model keeps *)
(* every product inside TLC's integer range by scaling the Q96 fixed-point *)
(* unit down (Q96 below) and by drawing amounts from small sets.           *)
(***************************************************************************)
EXTENDS Integers, Sequences, FiniteSets, TLC

VARIABLES
    pools,          \* sharedStateCache: pool address -> pool state
    tokenIn,        \* argument of findRoutes / getQuote / simulatePath
    tokenOut,       \* argument of findRoutes / getQuote
    amountIn,       \* argument of getQuote / simulatePath
    maxDepth,       \* argument of findRoutes (default 3)
    queue,          \* findRoutes: the breadth-first work list
    routes,         \* findRoutes: the routes found so far
    allocations,    \* findOptimalSplit: allocation per route
    remainingAmount,\* findOptimalSplit: amount not yet allocated
    steps,          \* findOptimalSplit: the allocAmount of every loop iteration
    result,         \* the value returned by the operation under way
    pc,             \* position of the SwapController / simulator call
    tokenMetadata,  \* ControllerService.tokenMetadata: token -> chainId (0 = no entry)
    poolIndex,      \* ControllerService.ethereumPools / polygonPools
    requests,       \* getQuotes: uniqueRequests of the batch under way
    idx,            \* getQuotes: index of the request being processed
    cur,            \* getQuotes: locals of the request being processed
    cache,          \* CacheService: key -> [quote, expiresAt]
    lastUpdated,    \* ControllerService.lastUpdated: token -> time (0 = never)
    now,            \* the clock (Date.now())
    handles,        \* DispatcherService: ids with a registered, unresolved handle
    dispatched,     \* per request id: the dispatch calls made for it in this batch
    fetches,        \* the getBatchPoolData calls of this batch
    batches,        \* number of batches flushed so far
    ppc,            \* position of the pipeline
    roundRobinCounters, \* RpcConfig: chain id -> round-robin counter
    rpcLog,         \* the getNextRpcEndpoint calls made so far
    logs,           \* ApiCallLogger.logs: the entries held (their ids)
    logged,         \* every entry logged since the last clear, in order
    recent          \* the last getRecentLogs call: its count and its result

swapVars == <<pools, tokenIn, tokenOut, amountIn, maxDepth, queue, routes,
              allocations, remainingAmount, steps, result, pc>>
pipeVars == <<tokenMetadata, poolIndex, requests, idx, cur, cache, lastUpdated, now, handles, dispatched,
              fetches, batches, ppc>>
infraVars == <<roundRobinCounters, rpcLog, logs, logged, recent>>
vars == <<swapVars, pipeVars, infraVars>>

----------------------------------------------------------------------------
(* Bounds and program constants *)

\* fixed-point unit standing for 2^96 (1n << 96n), scaled down
Q96 == 4
Q192 == Q96 * Q96
\* parts-per-million denominator of the fee
FEE_DENOMINATOR == 1000000
\* fee used when poolState.fee is falsy
DEFAULT_FEE == 3000
\* number of increments the optimizer divides the amount by
SPLIT_DIVISOR == 100
\* default of findRoutes' maxDepth parameter
DEFAULT_MAX_DEPTH == 3
\* largest maxDepth explored
MaxHops == 3
\* null / undefined return value (outside the range of every amount)
NULL == -1000000000
\* a thrown RangeError (BigInt division by zero)
FAULT == NULL - 1
\* a thrown SyntaxError (BigInt of a string that is no integer)
SYNTAX_ERROR == NULL - 2
\* the undefined returned by findPool when no pool joins the pair
UNDEFINED == "undefined"
\* chain ids
ETHEREUM == 1
POLYGON == 137

Tokens == {"A", "B", "C"}
PoolOrder == <<"p1", "p2", "p3">>
PoolAddrs == {PoolOrder[i] : i \in 1..Len(PoolOrder)}

----------------------------------------------------------------------------
(* Sequence helpers *)

Range(s) == {s[i] : i \in 1..Len(s)}

HasRepeat(s) == \E i, j \in 1..Len(s) : i < j /\ s[i] = s[j]

----------------------------------------------------------------------------
(* SharedStateCache *)

\* getPoolState(address): the pool state (callers test address \in DOMAIN pools
\* for the undefined case)
getPoolState(address) == pools[address]

RECURSIVE PoolsFrom(_, _)
PoolsFrom(i, token) ==
    IF i > Len(PoolOrder) THEN <<>>
    ELSE LET a == PoolOrder[i]
             rest == PoolsFrom(i + 1, token)
         IN IF a \in DOMAIN pools
               /\ (pools[a].token0 = token \/ pools[a].token1 = token)
            THEN <<pools[a]>> \o rest
            ELSE rest

\* getPoolsForToken(token): the pools registered under the token, in
\* registration order (the index is symmetric: under both of its tokens)
getPoolsForToken(token) == PoolsFrom(1, token)

----------------------------------------------------------------------------
(* TradeSimulator *)

\* BigInt division: truncates toward zero; b # 0
BigDiv(a, b) ==
    LET aa == IF a < 0 THEN -a ELSE a
        bb == IF b < 0 THEN -b ELSE b
        q == aa \div bb
    IN IF (a < 0) = (b < 0) THEN q ELSE -q

\* a mutant of getAmountOut without the zero-liquidity guard
getAmountOutNoGuard(poolState, tIn, amtIn) ==
    LET zeroForOne == tIn = poolState.token0
        liquidity == poolState.liquidity
        sqrtPriceX96 == poolState.sqrtPriceX96
        fee == IF poolState.fee = 0 THEN DEFAULT_FEE ELSE poolState.fee
        feeAmount == BigDiv(amtIn * fee, FEE_DENOMINATOR)
        amountInAfterFee == amtIn - feeAmount
    IN IF zeroForOne
       THEN LET reserve1 == BigDiv(sqrtPriceX96 * sqrtPriceX96 * liquidity, Q192)
                denominator == liquidity + amountInAfterFee
            IN IF denominator = 0 THEN FAULT
               ELSE BigDiv(reserve1 * amountInAfterFee, denominator)
       ELSE IF sqrtPriceX96 * sqrtPriceX96 = 0 THEN FAULT
            ELSE LET reserve0 == BigDiv(liquidity * Q192, sqrtPriceX96 * sqrtPriceX96)
                     denominator == liquidity + amountInAfterFee
                 IN IF denominator = 0 THEN FAULT
                    ELSE BigDiv(reserve0 * amountInAfterFee, denominator)

\* a mutant of getAmountOut: the input is subtracted from the reserve in the
\* denominator instead of added
getAmountOutMinus(poolState, tIn, amtIn) ==
    LET zeroForOne == tIn = poolState.token0
        liquidity == poolState.liquidity
        sqrtPriceX96 == poolState.sqrtPriceX96
        fee == IF poolState.fee = 0 THEN DEFAULT_FEE ELSE poolState.fee
        feeAmount == BigDiv(amtIn * fee, FEE_DENOMINATOR)
        amountInAfterFee == amtIn - feeAmount
        denominator == liquidity - amountInAfterFee
    IN IF liquidity = 0 THEN 0
       ELSE IF zeroForOne
       THEN LET reserve1 == BigDiv(sqrtPriceX96 * sqrtPriceX96 * liquidity, Q192)
            IN IF denominator = 0 THEN FAULT
               ELSE BigDiv(reserve1 * amountInAfterFee, denominator)
       ELSE IF sqrtPriceX96 * sqrtPriceX96 = 0 THEN FAULT
            ELSE LET reserve0 == BigDiv(liquidity * Q192, sqrtPriceX96 * sqrtPriceX96)
                 IN IF denominator = 0 THEN FAULT
                    ELSE BigDiv(reserve0 * amountInAfterFee, denominator)

\* getAmountOut(poolState, tokenIn, amountIn): amount, or FAULT when a
\* division by zero is raised
getAmountOut(poolState, tIn, amtIn) ==
    LET zeroForOne == tIn = poolState.token0
        liquidity == poolState.liquidity
        sqrtPriceX96 == poolState.sqrtPriceX96
        fee == IF poolState.fee = 0 THEN DEFAULT_FEE ELSE poolState.fee
        feeAmount == BigDiv(amtIn * fee, FEE_DENOMINATOR)
        amountInAfterFee == amtIn - feeAmount
    IN IF liquidity = 0 THEN 0
       ELSE IF zeroForOne
       THEN LET reserve0 == liquidity
                reserve1 == BigDiv(sqrtPriceX96 * sqrtPriceX96 * liquidity, Q192)
                numerator == reserve1 * amountInAfterFee
                denominator == reserve0 + amountInAfterFee
            IN IF denominator = 0 THEN FAULT ELSE BigDiv(numerator, denominator)
       ELSE IF sqrtPriceX96 * sqrtPriceX96 = 0 THEN FAULT
            ELSE LET reserve1 == liquidity
                     reserve0 == BigDiv(liquidity * Q192, sqrtPriceX96 * sqrtPriceX96)
                     numerator == reserve0 * amountInAfterFee
                     denominator == reserve1 + amountInAfterFee
                 IN IF denominator = 0 THEN FAULT ELSE BigDiv(numerator, denominator)

RECURSIVE FirstMatch(_, _, _)
FirstMatch(ps, tokenA, tokenB) ==
    IF ps = <<>> THEN UNDEFINED
    ELSE LET pool == Head(ps)
         IN IF (pool.token0 = tokenA /\ pool.token1 = tokenB)
               \/ (pool.token0 = tokenB /\ pool.token1 = tokenA)
            THEN pool.address
            ELSE FirstMatch(Tail(ps), tokenA, tokenB)

\* findPool(tokenA, tokenB): address of the first pool joining the pair
findPool(tokenA, tokenB) == FirstMatch(getPoolsForToken(tokenA), tokenA, tokenB)

RECURSIVE SimulateFrom(_, _, _)
SimulateFrom(path, i, currentAmount) ==
    IF i > Len(path) - 1 THEN currentAmount
    ELSE LET poolAddress == findPool(path[i], path[i + 1])
         IN IF poolAddress = UNDEFINED \/ poolAddress \notin DOMAIN pools THEN NULL
            ELSE LET amountOut == getAmountOut(getPoolState(poolAddress), path[i], currentAmount)
                 IN IF amountOut = FAULT THEN FAULT
                    ELSE SimulateFrom(path, i + 1, amountOut)

\* simulatePath(path, amountIn): amount, NULL (a hop has no pool) or FAULT
simulatePath(path, amtIn) == SimulateFrom(path, 1, amtIn)

----------------------------------------------------------------------------
(* RoutingEngine.findRoutes *)

\* the body of `for (const pool of pools)` for the dequeued item
RECURSIVE ExpandPools(_, _, _, _)
ExpandPools(ps, item, rs, q) ==
    IF ps = <<>> THEN [routes |-> rs, queue |-> q]
    ELSE LET pool == Head(ps)
             otherToken == IF pool.token0 = item.token THEN pool.token1 ELSE pool.token0
             rs2 == IF otherToken = tokenOut
                    THEN Append(rs, Append(item.path, tokenOut))
                    ELSE rs
             q2 == IF otherToken \notin item.visitedInPath
                   THEN Append(q, [token |-> otherToken,
                                   path |-> Append(item.path, otherToken),
                                   visitedInPath |-> item.visitedInPath \cup {otherToken}])
                   ELSE q
         IN ExpandPools(Tail(ps), item, rs2, q2)

\* mutant of FindRoutesStep: the depth test `path.length > maxDepth` is missing
FindRoutesStepNoDepth ==
    /\ pc = "routing"
    /\ queue # <<>>
    /\ LET item == Head(queue)
           r == ExpandPools(getPoolsForToken(item.token), item, routes, Tail(queue))
       IN /\ queue' = r.queue
          /\ routes' = r.routes
    /\ UNCHANGED <<pools, tokenIn, tokenOut, amountIn, maxDepth, allocations,
                   remainingAmount, steps, result, pc, pipeVars, infraVars>>

\* mutant of FindRoutesStep: the pools of the expanded token are taken out of
\* the shared store once they have been walked
FindRoutesStepMarking ==
    /\ pc = "routing"
    /\ queue # <<>>
    /\ LET item == Head(queue)
       IN IF Len(item.path) > maxDepth
          THEN /\ queue' = Tail(queue)
               /\ routes' = routes
               /\ pools' = pools
          ELSE LET r == ExpandPools(getPoolsForToken(item.token), item, routes, Tail(queue))
               IN /\ queue' = r.queue
                  /\ routes' = r.routes
                  /\ pools' = [a \in {x \in DOMAIN pools :
                                         pools[x].token0 # item.token
                                         /\ pools[x].token1 # item.token} |-> pools[a]]
    /\ UNCHANGED <<tokenIn, tokenOut, amountIn, maxDepth, allocations,
                   remainingAmount, steps, result, pc, pipeVars, infraVars>>

\* one iteration of `while (queue.length > 0)`
FindRoutesStep ==
    /\ pc = "routing"
    /\ queue # <<>>
    /\ LET item == Head(queue)
       IN IF Len(item.path) > maxDepth
          THEN /\ queue' = Tail(queue)
               /\ routes' = routes
          ELSE LET r == ExpandPools(getPoolsForToken(item.token), item, routes, Tail(queue))
               IN /\ queue' = r.queue
                  /\ routes' = r.routes
    /\ UNCHANGED <<pools, tokenIn, tokenOut, amountIn, maxDepth, allocations,
                   remainingAmount, steps, result, pc, pipeVars, infraVars>>

\* `return routes` once the queue is empty
FindRoutesReturn ==
    /\ pc = "routing"
    /\ queue = <<>>
    /\ pc' = "routed"
    /\ UNCHANGED <<pools, tokenIn, tokenOut, amountIn, maxDepth, queue, routes,
                   allocations, remainingAmount, steps, result, pipeVars, infraVars>>

\* a second call findRoutes(tokenIn, tokenOut, maxDepth) on the same store;
\* the first call's return value is kept in result
FindRoutesAgain ==
    /\ pc = "routed"
    /\ result = [kind |-> "null"]
    /\ result' = [kind |-> "routes", routes |-> routes]
    /\ queue' = <<[token |-> tokenIn, path |-> <<tokenIn>>, visitedInPath |-> {tokenIn}]>>
    /\ routes' = <<>>
    /\ pc' = "routing"
    /\ UNCHANGED <<pools, tokenIn, tokenOut, amountIn, maxDepth, allocations,
                   remainingAmount, steps, pipeVars, infraVars>>

----------------------------------------------------------------------------
(* SwapController.getQuote / findOptimalSplit *)

\* JavaScript truthiness of a simulatePath result (null and 0n are falsy)
Truthy(out) == out # NULL /\ out # 0

\* `for (let i = 0; i < routes.length; i++)` of the greedy loop: the best
\* route index (1-based here) and its marginal output, or a fault
RECURSIVE BestRoute(_, _, _, _)
BestRoute(i, allocAmount, bestRouteIdx, bestMarginalOutput) ==
    IF i > Len(routes)
    THEN [fault |-> FALSE, idx |-> bestRouteIdx, marginal |-> bestMarginalOutput]
    ELSE LET testAllocation == allocations[i] + allocAmount
             outputForRoute == simulatePath(routes[i], testAllocation)
             prev == IF allocations[i] > 0
                     THEN simulatePath(routes[i], allocations[i])
                     ELSE 0
             prevOr0 == IF Truthy(prev) THEN prev ELSE 0
             marginalOutput == outputForRoute - prevOr0
         IN IF outputForRoute = FAULT \/ (Truthy(outputForRoute) /\ prev = FAULT)
            THEN [fault |-> TRUE, idx |-> bestRouteIdx, marginal |-> bestMarginalOutput]
            ELSE IF Truthy(outputForRoute) /\ marginalOutput > bestMarginalOutput
            THEN BestRoute(i + 1, allocAmount, i, marginalOutput)
            ELSE BestRoute(i + 1, allocAmount, bestRouteIdx, bestMarginalOutput)

\* the final loop building the distribution and the total output
RECURSIVE BuildDistribution(_, _, _)
BuildDistribution(i, distribution, totalAmountOut) ==
    IF i > Len(routes)
    THEN [fault |-> FALSE, distribution |-> distribution, total |-> totalAmountOut]
    ELSE IF allocations[i] > 0
    THEN LET output == simulatePath(routes[i], allocations[i])
         IN IF output = FAULT
            THEN [fault |-> TRUE, distribution |-> distribution, total |-> totalAmountOut]
            ELSE IF Truthy(output)
            THEN BuildDistribution(i + 1,
                     Append(distribution, [route |-> routes[i],
                                           amount |-> allocations[i],
                                           output |-> output]),
                     totalAmountOut + output)
            ELSE BuildDistribution(i + 1, distribution, totalAmountOut)
    ELSE BuildDistribution(i + 1, distribution, totalAmountOut)

NullQuote == [kind |-> "null"]
Thrown == [kind |-> "fault"]

\* getQuote after findRoutes returned: no route, one route, or the start of
\* findOptimalSplit (up to the greedy loop)
GetQuoteRouted ==
    /\ pc = "routed"
    /\ IF Len(routes) = 0
       THEN /\ result' = NullQuote
            /\ pc' = "done"
            /\ UNCHANGED <<allocations, remainingAmount>>
       ELSE IF amountIn = SYNTAX_ERROR
       THEN /\ result' = Thrown
            /\ pc' = "done"
            /\ UNCHANGED <<allocations, remainingAmount>>
       ELSE IF Len(routes) = 1
       THEN LET amountOut == simulatePath(routes[1], amountIn)
            IN /\ result' = IF amountOut = FAULT THEN Thrown
                            ELSE IF ~Truthy(amountOut) THEN NullQuote
                            ELSE [kind |-> "single", route |-> routes[1],
                                  amountOut |-> amountOut]
               /\ pc' = "done"
               /\ UNCHANGED <<allocations, remainingAmount>>
       ELSE LET incrementSize == BigDiv(amountIn, SPLIT_DIVISOR)
            IN /\ allocations' = [i \in 1..Len(routes) |-> 0]
               /\ IF incrementSize = 0
                  THEN LET amountOut == simulatePath(routes[1], amountIn)
                       IN /\ result' =
                               IF amountOut = FAULT THEN Thrown
                               ELSE IF ~Truthy(amountOut) THEN NullQuote
                               ELSE [kind |-> "split",
                                     finalAmountOut |-> amountOut,
                                     distribution |-> <<[route |-> routes[1],
                                                         amount |-> amountIn]>>]
                          /\ pc' = "done"
                          /\ UNCHANGED remainingAmount
                  ELSE /\ remainingAmount' = amountIn
                       /\ result' = NullQuote
                       /\ pc' = "split"
    /\ UNCHANGED <<pools, tokenIn, tokenOut, amountIn, maxDepth, queue, routes,
                   steps, pipeVars, infraVars>>

\* mutant of SplitStep: `remainingAmount -= allocAmount` is missing
SplitStepNoDecrement ==
    /\ pc = "split"
    /\ remainingAmount > 0
    /\ LET incrementSize == BigDiv(amountIn, SPLIT_DIVISOR)
           allocAmount == IF remainingAmount < incrementSize
                          THEN remainingAmount ELSE incrementSize
           best == BestRoute(1, allocAmount, 1, 0)
       IN IF best.fault
          THEN /\ result' = Thrown
               /\ pc' = "done"
               /\ UNCHANGED <<allocations, remainingAmount, steps>>
          ELSE /\ allocations' = [allocations EXCEPT ![best.idx] = @ + allocAmount]
               /\ remainingAmount' = remainingAmount
               /\ steps' = Append(steps, allocAmount)
               /\ UNCHANGED <<result, pc>>
    /\ UNCHANGED <<pools, tokenIn, tokenOut, amountIn, maxDepth, queue, routes,
                   pipeVars, infraVars>>

\* mutant of SplitStep: every step allocates incrementSize, the last one too
SplitStepNoMin ==
    /\ pc = "split"
    /\ remainingAmount > 0
    /\ LET allocAmount == BigDiv(amountIn, SPLIT_DIVISOR)
           best == BestRoute(1, allocAmount, 1, 0)
       IN IF best.fault
          THEN /\ result' = Thrown
               /\ pc' = "done"
               /\ UNCHANGED <<allocations, remainingAmount, steps>>
          ELSE /\ allocations' = [allocations EXCEPT ![best.idx] = @ + allocAmount]
               /\ remainingAmount' = remainingAmount - allocAmount
               /\ steps' = Append(steps, allocAmount)
               /\ UNCHANGED <<result, pc>>
    /\ UNCHANGED <<pools, tokenIn, tokenOut, amountIn, maxDepth, queue, routes,
                   pipeVars, infraVars>>

\* one iteration of `while (remainingAmount > 0n)`
SplitStep ==
    /\ pc = "split"
    /\ remainingAmount > 0
    /\ LET incrementSize == BigDiv(amountIn, SPLIT_DIVISOR)
           allocAmount == IF remainingAmount < incrementSize
                          THEN remainingAmount ELSE incrementSize
           best == BestRoute(1, allocAmount, 1, 0)
       IN IF best.fault
          THEN /\ result' = Thrown
               /\ pc' = "done"
               /\ UNCHANGED <<allocations, remainingAmount, steps>>
          ELSE /\ allocations' = [allocations EXCEPT ![best.idx] = @ + allocAmount]
               /\ remainingAmount' = remainingAmount - allocAmount
               /\ steps' = Append(steps, allocAmount)
               /\ UNCHANGED <<result, pc>>
    /\ UNCHANGED <<pools, tokenIn, tokenOut, amountIn, maxDepth, queue, routes,
                   pipeVars, infraVars>>

\* after the greedy loop: the distribution, the total and the returned plan
SplitFinish ==
    /\ pc = "split"
    /\ ~(remainingAmount > 0)
    /\ LET d == BuildDistribution(1, <<>>, 0)
       IN result' = IF d.fault THEN Thrown
                    ELSE IF Len(d.distribution) = 0 THEN NullQuote
                    ELSE [kind |-> "split", finalAmountOut |-> d.total,
                          distribution |-> d.distribution]
    /\ pc' = "done"
    /\ UNCHANGED <<pools, tokenIn, tokenOut, amountIn, maxDepth, queue, routes,
                   allocations, remainingAmount, steps, pipeVars, infraVars>>

----------------------------------------------------------------------------
(* Initial values shared by the specifications *)

\* the pipeline before any batch
PipeIdle ==
    /\ tokenMetadata = [t \in Tokens |-> 0]
    /\ poolIndex = [ethereumPools |-> <<>>, polygonPools |-> <<>>]
    /\ requests = <<>>
    /\ idx = 0
    /\ cur = [key |-> <<>>, t |-> 0, stale |-> FALSE, groups |-> <<>>, g |-> 0,
              query |-> <<>>, expired |-> FALSE]
    /\ cache = <<>>
    /\ lastUpdated = [t \in Tokens |-> 0]
    /\ now = 0
    /\ handles = {}
    /\ dispatched = <<>>
    /\ fetches = <<>>
    /\ batches = 0
    /\ ppc = "off"

\* the SwapController before any call
SwapIdle ==
    /\ pools = <<>>
    /\ tokenIn = "A"
    /\ tokenOut = "B"
    /\ amountIn = 0
    /\ maxDepth = DEFAULT_MAX_DEPTH
    /\ queue = <<>>
    /\ routes = <<>>
    /\ allocations = <<>>
    /\ remainingAmount = 0
    /\ steps = <<>>
    /\ result = NullQuote
    /\ pc = "off"

\* RpcConfig and ApiCallLogger after construction
InfraIdle ==
    /\ roundRobinCounters = [c \in {ETHEREUM, POLYGON} |-> 0]
    /\ rpcLog = <<>>
    /\ logs = <<>>
    /\ logged = <<>>
    /\ recent = [asked |-> FALSE, count |-> 0, entries |-> <<>>]

TokenPairs == {<<a, b>> \in Tokens \X Tokens : a # b}

\* a pool record as the store holds it
PoolRec(addr, pair, liq, sqrtP, fee) ==
    [address |-> addr, token0 |-> pair[1], token1 |-> pair[2],
     liquidity |-> liq, sqrtPriceX96 |-> sqrtP, fee |-> fee]

----------------------------------------------------------------------------
(* SpecRoute: findRoutes over every pool graph on three tokens *)

\* every store of at most three pools, each joining two distinct tokens
RouteStores ==
    UNION {[D -> {PoolRec("p1", pr, 1000, Q96, DEFAULT_FEE) : pr \in TokenPairs}]
           : D \in SUBSET PoolAddrs}

FixAddress(store) == [a \in DOMAIN store |-> [store[a] EXCEPT !.address = a]]

InitRoute ==
    /\ PipeIdle
    /\ InfraIdle
    /\ pools \in {FixAddress(s) : s \in RouteStores}
    /\ tokenIn \in Tokens
    /\ tokenOut \in Tokens
    /\ maxDepth \in 1..MaxHops
    /\ amountIn = 0
    /\ queue = <<[token |-> tokenIn, path |-> <<tokenIn>>, visitedInPath |-> {tokenIn}]>>
    /\ routes = <<>>
    /\ allocations = <<>>
    /\ remainingAmount = 0
    /\ steps = <<>>
    /\ result = NullQuote
    /\ pc = "routing"

NextRoute ==
    \/ FindRoutesStep
    \/ FindRoutesReturn
    \/ FindRoutesAgain

SpecRoute == InitRoute /\ [][NextRoute]_vars

\* C1: no route returned by findRoutes contains the same token twice
C1_NoRevisit ==
    pc = "routed" => \A i \in 1..Len(routes) : ~HasRepeat(routes[i])

\* C13: parallel pools over one token pair count as one edge: no token
\* sequence appears twice in the list findRoutes returns
C13_DistinctRoutes ==
    pc = "routed" =>
        \A i, j \in 1..Len(routes) : i # j => routes[i] # routes[j]

\* the tokens one pool away from token t
Neighbours(t) ==
    {IF pools[a].token0 = t THEN pools[a].token1 ELSE pools[a].token0
        : a \in {x \in DOMAIN pools : pools[x].token0 = t \/ pools[x].token1 = t}}

\* the tokens reachable from the set S in 1..k hops
RECURSIVE ReachWithin(_, _)
ReachWithin(S, k) ==
    IF k = 0 THEN {}
    ELSE LET N == UNION {Neighbours(t) : t \in S}
         IN N \cup ReachWithin(N, k - 1)

\* C14: every route returned starts with tokenIn, ends with tokenOut, has
\* between 1 and maxDepth hops, each hop over a pool of the store; the list
\* is empty when tokenOut is not reachable from tokenIn within maxDepth hops
C14_RouteShape ==
    pc = "routed" =>
        /\ \A i \in 1..Len(routes) :
              LET r == routes[i]
              IN /\ r[1] = tokenIn
                 /\ r[Len(r)] = tokenOut
                 /\ Len(r) - 1 >= 1
                 /\ Len(r) - 1 <= maxDepth
                 /\ \A h \in 1..(Len(r) - 1) : r[h + 1] \in Neighbours(r[h])
        /\ (tokenOut \notin ReachWithin({tokenIn}, maxDepth)) => routes = <<>>

\* C14 witness: a call with maxDepth below the default, on a store of three
\* pools, returned a route of exactly maxDepth hops
C14_Witness ==
    /\ pc = "routed"
    /\ maxDepth < DEFAULT_MAX_DEPTH
    /\ \E i \in 1..Len(routes) : Len(routes[i]) - 1 = maxDepth
    /\ Cardinality(DOMAIN pools) = Len(PoolOrder)

----------------------------------------------------------------------------
(* SpecSim: simulatePath over one direct pool A-B, both directions *)

SimLiquidities == {0, 1, 3, 1000}
SimSqrtPrices == {0, Q96 \div 2, Q96, 2 * Q96}
SimFees == {0, 100, 500, DEFAULT_FEE, 10000, FEE_DENOMINATOR}
SimAmounts == {0, 1, 2, 99, 100, 334, 1000, 2000}

InitSim ==
    /\ PipeIdle
    /\ InfraIdle
    /\ \E liq \in SimLiquidities, sp \in SimSqrtPrices, fee \in SimFees :
          pools = [a \in {"p1"} |-> PoolRec("p1", <<"A", "B">>, liq, sp, fee)]
    /\ \E pr \in {<<"A", "B">>, <<"B", "A">>} : tokenIn = pr[1] /\ tokenOut = pr[2]
    /\ amountIn \in SimAmounts
    /\ maxDepth = DEFAULT_MAX_DEPTH
    /\ queue = <<>>
    /\ routes = <<>>
    /\ allocations = <<>>
    /\ remainingAmount = 0
    /\ steps = <<>>
    /\ result = NULL
    /\ pc = "simulate"

\* a call simulatePath([tokenIn, tokenOut], amountIn)
SimulateDirect ==
    /\ pc = "simulate"
    /\ result' = simulatePath(<<tokenIn, tokenOut>>, amountIn)
    /\ pc' = "simulated"
    /\ UNCHANGED <<pools, tokenIn, tokenOut, amountIn, maxDepth, queue, routes,
                   allocations, remainingAmount, steps, pipeVars, infraVars>>

NextSim == SimulateDirect

SpecSim == InitSim /\ [][NextSim]_vars

\* the closed form of the constant-product hop, fee as stored in the pool
ClosedFormDefined(pool, tIn, amt) ==
    LET aaf == amt - ((amt * pool.fee) \div FEE_DENOMINATOR)
    IN /\ pool.liquidity + aaf # 0
       /\ (tIn # pool.token0 => pool.sqrtPriceX96 # 0)

ClosedForm(pool, tIn, amt) ==
    LET aaf == amt - ((amt * pool.fee) \div FEE_DENOMINATOR)
        reserveA == pool.liquidity
        reserveB == IF tIn = pool.token0
                    THEN (pool.liquidity * pool.sqrtPriceX96 * pool.sqrtPriceX96) \div Q192
                    ELSE (pool.liquidity * Q192) \div (pool.sqrtPriceX96 * pool.sqrtPriceX96)
    IN (reserveB * aaf) \div (reserveA + aaf)

\* C5: on a direct route simulatePath returns exactly the closed form
\* floor(reserveB * amountInAfterFee / (reserveA + amountInAfterFee)), for
\* every feePpm, 0 included
C5_ClosedForm ==
    (pc = "simulated" /\ ClosedFormDefined(pools["p1"], tokenIn, amountIn))
        => result = ClosedForm(pools["p1"], tokenIn, amountIn)

\* C6: amountOut is non-increasing in feePpm over the whole fee range from 0
C6_FeeMonotone ==
    pc = "simulated" =>
        \A fee2 \in SimFees :
            LET out2 == getAmountOut([pools["p1"] EXCEPT !.fee = fee2], tokenIn, amountIn)
            IN (pools["p1"].fee <= fee2 /\ result # FAULT /\ out2 # FAULT)
                   => result >= out2

\* C7: a hop through a zero-liquidity pool yields 0 and raises no fault
C7_ZeroLiquidity ==
    (pc = "simulated" /\ pools["p1"].liquidity = 0) => result = 0

\* C7 witness: zero liquidity, sqrtPrice 0, trading token1 for token0
C7_Witness ==
    /\ pc = "simulated"
    /\ pools["p1"].liquidity = 0
    /\ pools["p1"].sqrtPriceX96 = 0
    /\ tokenIn = pools["p1"].token1
    /\ amountIn > 0
    /\ result = 0

\* increments tried on top of amountIn
SimIncrements == {1, 50}

\* simulatePath on the direct route of the state, for another amount
OutputAt(amt) == simulatePath(<<tokenIn, tokenOut>>, amt)

NoFaultAt(d) ==
    /\ OutputAt(amountIn) # FAULT
    /\ OutputAt(amountIn + d) # FAULT
    /\ OutputAt(amountIn + 2 * d) # FAULT

\* C22 as stated: the marginal output of one more increment never grows,
\* and the output never shrinks when the amount grows
C22_Concave ==
    pc = "simulated" =>
        \A d \in SimIncrements :
            NoFaultAt(d) =>
                /\ OutputAt(amountIn + 2 * d) - OutputAt(amountIn + d)
                       <= OutputAt(amountIn + d) - OutputAt(amountIn)
                /\ OutputAt(amountIn + d) >= OutputAt(amountIn)

\* C22 amended: simulatePath is non-decreasing in amountIn; nothing is
\* claimed of the marginal outputs, which integer truncation lets grow
C22_Monotone ==
    pc = "simulated" =>
        \A d \in SimIncrements :
            NoFaultAt(d) =>
                /\ result = OutputAt(amountIn)
                /\ OutputAt(amountIn + d) >= OutputAt(amountIn)
                /\ OutputAt(amountIn + 2 * d) >= OutputAt(amountIn + d)

\* C22 witness: a live pool on which the output grows with the amount and
\* the second increment adds more than the first
C22_Witness ==
    /\ pc = "simulated"
    /\ pools["p1"].liquidity > 0
    /\ pools["p1"].fee = DEFAULT_FEE
    /\ amountIn > 0
    /\ result > 0
    /\ \E d \in SimIncrements :
          /\ NoFaultAt(d)
          /\ OutputAt(amountIn + d) > OutputAt(amountIn)
          /\ OutputAt(amountIn + 2 * d) - OutputAt(amountIn + d)
                 > OutputAt(amountIn + d) - OutputAt(amountIn)

\* C27: simulatePath over a store that holds the pool of every hop returns
\* an amount: neither null nor a fault, sqrtPrice 0 included
C27_NoFault ==
    pc = "simulated" => (result # FAULT /\ result # NULL)

----------------------------------------------------------------------------
(* SpecSwap: getQuote(A, B, amountIn) over the stores built from the pools  *)
(* p1 = (A,B), p2 = (A,C), p3 = (C,B)                                       *)

SwapLiquidities == {0, 3, 1000}
SwapSqrtPrices == {Q96 \div 2, 2 * Q96}
SwapAmounts == {50, 100, 250, 350, 1000}
SwapPairs == [p1 |-> <<"A", "B">>, p2 |-> <<"A", "C">>, p3 |-> <<"C", "B">>]

SwapStores ==
    UNION {[D -> {PoolRec("p1", <<"A", "B">>, liq, sp, DEFAULT_FEE)
                  : liq \in SwapLiquidities, sp \in SwapSqrtPrices}]
           : D \in SUBSET PoolAddrs}

FixPairs(store) ==
    [a \in DOMAIN store |-> [store[a] EXCEPT !.address = a,
                                             !.token0 = SwapPairs[a][1],
                                             !.token1 = SwapPairs[a][2]]]

InitSwap ==
    /\ PipeIdle
    /\ InfraIdle
    /\ pools \in {FixPairs(s) : s \in SwapStores}
    /\ tokenIn = "A"
    /\ tokenOut = "B"
    /\ maxDepth = DEFAULT_MAX_DEPTH
    /\ amountIn \in SwapAmounts
    /\ queue = <<[token |-> tokenIn, path |-> <<tokenIn>>, visitedInPath |-> {tokenIn}]>>
    /\ routes = <<>>
    /\ allocations = <<>>
    /\ remainingAmount = 0
    /\ steps = <<>>
    /\ result = NullQuote
    /\ pc = "routing"

NextSwap ==
    \/ FindRoutesStep
    \/ FindRoutesReturn
    \/ GetQuoteRouted
    \/ SplitStep
    \/ SplitFinish

SpecSwap == InitSwap /\ [][NextSwap]_vars

RECURSIVE SumAmounts(_)
SumAmounts(d) == IF d = <<>> THEN 0 ELSE Head(d).amount + SumAmounts(Tail(d))

RECURSIVE BestSingle(_)
BestSingle(rs) ==
    IF rs = <<>> THEN 0
    ELSE LET o == simulatePath(Head(rs), amountIn)
             b == BestSingle(Tail(rs))
         IN IF o > b THEN o ELSE b

\* C2: with two or more routes and a positive total, the amounts of the
\* returned distribution sum exactly to amountIn
C2_SumExact ==
    (pc = "done" /\ Len(routes) >= 2 /\ amountIn > 0 /\ result.kind = "split")
        => SumAmounts(result.distribution) = amountIn

\* C8: with two or more routes, finalAmountOut of the plan is at least the
\* output of the whole input on the best single route
C8_BeatsBestSingle ==
    (pc = "done" /\ Len(routes) >= 2 /\ result.kind = "split")
        => result.finalAmountOut >= BestSingle(routes)

C15_FeasibleGivesQuote ==
    (pc = "done" /\ Len(routes) >= 2
        /\ \E i \in 1..Len(routes) : Truthy(simulatePath(routes[i], amountIn)))
        => result.kind = "split"

RECURSIVE SumOutputs(_)
SumOutputs(d) == IF d = <<>> THEN 0 ELSE Head(d).output + SumOutputs(Tail(d))

\* C16: in every multi-route plan each entry's output is simulatePath of its
\* route and amount on the store, and finalAmountOut is the sum of the outputs
C16_OutputsAddUp ==
    (pc = "done" /\ Len(routes) >= 2 /\ result.kind = "split") =>
        /\ \A n \in 1..Len(result.distribution) :
              LET e == result.distribution[n]
              IN /\ "output" \in DOMAIN e
                 /\ e.output = simulatePath(e.route, e.amount)
        /\ result.finalAmountOut = SumOutputs(result.distribution)

----------------------------------------------------------------------------
(* SpecQuoteFair: getQuote run to its end over every pool graph on three    *)
(* tokens; the call is sequential code, so a step that can be taken is taken *)

QuoteAmounts == {1, 100, 150}

InitQuote ==
    /\ PipeIdle
    /\ InfraIdle
    /\ pools \in {FixAddress(st) : st \in RouteStores}
    /\ tokenIn = "A"
    /\ tokenOut \in {"A", "B"}
    /\ maxDepth \in 1..MaxHops
    /\ amountIn \in QuoteAmounts
    /\ queue = <<[token |-> tokenIn, path |-> <<tokenIn>>, visitedInPath |-> {tokenIn}]>>
    /\ routes = <<>>
    /\ allocations = <<>>
    /\ remainingAmount = 0
    /\ steps = <<>>
    /\ result = NullQuote
    /\ pc = "routing"

SpecQuoteFair == InitQuote /\ [][NextSwap]_vars /\ WF_vars(NextSwap)

RECURSIVE Pow(_, _)
Pow(b, e) == IF e = 0 THEN 1 ELSE b * Pow(b, e - 1)

\* a path of the queue weighs more than all the paths one expansion can
\* replace it by (at most one per pool of the store, each one token longer)
RECURSIVE QueueWeight(_)
QueueWeight(q) ==
    IF q = <<>> THEN 0
    ELSE Pow(Len(PoolOrder) + 1, maxDepth + 2 - Len(Head(q).path)) + QueueWeight(Tail(q))

\* above every queue weight and every remaining amount
PhaseWeight == Pow(Len(PoolOrder) + 1, MaxHops + 3)

\* the work left: the phase of getQuote, then the queue still to expand or
\* the amount still to allocate
Variant ==
    IF pc = "routing" THEN 3 * PhaseWeight + QueueWeight(queue)
    ELSE IF pc = "routed" THEN 2 * PhaseWeight
    ELSE IF pc = "split" THEN PhaseWeight + remainingAmount
    ELSE 0

\* C28: getQuote always terminates: every step of the search and of the
\* greedy loop strictly decreases the work left, which is a natural number,
\* so a run that keeps taking steps reaches the return within Variant steps;
\* in the greedy loop the work left is remainingAmount, which decreases and
\* never goes below zero
C28_Terminates ==
    /\ [](Variant >= 0 /\ (pc = "split" => remainingAmount < PhaseWeight))
    /\ [][Variant' < Variant]_vars
    /\ [][(pc = "split" /\ pc' = "split") =>
             (remainingAmount' < remainingAmount /\ remainingAmount' >= 0)]_vars

\* C28 witness: a call over a graph with a cycle and parallel pools that
\* went through the whole greedy loop and returned
C28_Witness ==
    /\ pc = "done"
    /\ Len(steps) >= SPLIT_DIVISOR
    /\ remainingAmount = 0
    /\ \E i, j \in 1..Len(routes) : i # j /\ routes[i] = routes[j]
    /\ \E i \in 1..Len(routes) : HasRepeat(routes[i])

----------------------------------------------------------------------------
(* SpecHttp: POST /api/swap/quote in front of getQuote *)

\* JSON value absent from the body (or the empty string): falsy
MISSING == ""
Digits == <<"0", "1", "2", "3", "4", "5", "6", "7", "8", "9">>

\* value of a string of decimal digits
RECURSIVE DigitsValue(_, _)
DigitsValue(text, acc) ==
    IF text = <<>> THEN acc
    ELSE LET d == CHOOSE k \in 1..Len(Digits) : Digits[k] = Head(text)
         IN DigitsValue(Tail(text), acc * Len(Digits) + (d - 1))

\* BigInt(text) for a non-empty string: an optional minus sign and at least
\* one digit, else a SyntaxError
BigIntOf(text) ==
    LET negative == Head(text) = "-"
        digits == IF negative THEN Tail(text) ELSE text
    IN IF digits = <<>> \/ \E k \in 1..Len(digits) : digits[k] \notin Range(Digits)
       THEN SYNTAX_ERROR
       ELSE IF negative THEN -DigitsValue(digits, 0) ELSE DigitsValue(digits, 0)

\* the handler's JSON answer for what getQuote returned (or threw)
QuoteResponse(quote) ==
    IF quote.kind = "fault"
    THEN [kind |-> "response", status |-> 500, success |-> FALSE, quote |-> NullQuote]
    ELSE [kind |-> "response", status |-> 200, success |-> quote.kind # "null",
          quote |-> quote]

\* the handler up to the call of getQuote: parameter check, then findRoutes
PostQuote(body) ==
    /\ pc = "request"
    /\ IF body.tokenIn = MISSING \/ body.tokenOut = MISSING \/ body.amountIn = <<>>
       THEN /\ result' = [kind |-> "response", status |-> 400, success |-> FALSE,
                          quote |-> NullQuote]
            /\ pc' = "responded"
            /\ UNCHANGED <<tokenIn, tokenOut, amountIn, queue>>
       ELSE /\ tokenIn' = body.tokenIn
            /\ tokenOut' = body.tokenOut
            /\ amountIn' = BigIntOf(body.amountIn)
            /\ queue' = <<[token |-> body.tokenIn, path |-> <<body.tokenIn>>,
                           visitedInPath |-> {body.tokenIn}]>>
            /\ pc' = "routing"
            /\ UNCHANGED result
    /\ UNCHANGED <<pools, maxDepth, routes, allocations, remainingAmount, steps,
                   pipeVars, infraVars>>

\* getQuote has returned or thrown: res.json(response) / res.status(500)
Respond ==
    /\ pc = "done"
    /\ result' = QuoteResponse(result)
    /\ pc' = "responded"
    /\ UNCHANGED <<pools, tokenIn, tokenOut, amountIn, maxDepth, queue, routes,
                   allocations, remainingAmount, steps, pipeVars, infraVars>>

HttpLiquidities == {0, 1000}
HttpStores ==
    UNION {[D -> {PoolRec("p1", <<"A", "B">>, liq, 2 * Q96, DEFAULT_FEE)
                  : liq \in HttpLiquidities}]
           : D \in SUBSET PoolAddrs}

\* amountIn as sent: absent, zero, negative, no number, below and above
\* SPLIT_DIVISOR units
AmountTexts ==
    { <<>>, <<"0">>, <<"-", "5", "0">>, <<"-", "2", "5", "0">>, <<"x">>, <<"-">>,
      <<"5", "0">>, <<"2", "5", "0">> }

Bodies ==
    [tokenIn : {MISSING, "A"}, tokenOut : {MISSING, "B", "C"}, amountIn : AmountTexts]

InitHttp ==
    /\ PipeIdle
    /\ InfraIdle
    /\ pools \in {FixPairs(st) : st \in HttpStores}
    /\ tokenIn = MISSING
    /\ tokenOut = MISSING
    /\ amountIn = 0
    /\ maxDepth = DEFAULT_MAX_DEPTH
    /\ queue = <<>>
    /\ routes = <<>>
    /\ allocations = <<>>
    /\ remainingAmount = 0
    /\ steps = <<>>
    /\ result = NullQuote
    /\ pc = "request"

NextHttp ==
    \/ \E body \in Bodies : PostQuote(body)
    \/ FindRoutesStep
    \/ FindRoutesReturn
    \/ GetQuoteRouted
    \/ SplitStep
    \/ SplitFinish
    \/ Respond

SpecHttp == InitHttp /\ [][NextHttp]_vars

\* C12: a request with no route is answered with a failure, and a request
\* that has routes but no feasible simulation is answered differently from it
C12_NoRouteDistinct ==
    (pc = "responded" /\ result.status # 400) =>
        /\ (routes = <<>>) => ~result.success
        /\ (routes # <<>> /\ ~result.success) => result # QuoteResponse(NullQuote)

\* C18: routing and simulation run only for a request with both tokens and
\* a well-formed positive amount, and no quote is answered for any other
C18_InvalidRejected ==
    /\ pc \in {"routing", "routed", "split", "done"}
          => (tokenIn # MISSING /\ tokenOut # MISSING
              /\ amountIn # SYNTAX_ERROR /\ amountIn > 0)
    /\ (pc = "responded" /\ result.success) => amountIn > 0

\* C19: a successful answer carries either route and amountOut, or
\* finalAmountOut and a distribution whose entries all carry route, amount
\* and output
C19_QuoteShape ==
    (pc = "responded" /\ result.success) =>
        \/ DOMAIN result.quote = {"kind", "route", "amountOut"}
        \/ /\ DOMAIN result.quote = {"kind", "finalAmountOut", "distribution"}
           /\ \A n \in 1..Len(result.quote.distribution) :
                 DOMAIN result.quote.distribution[n] = {"route", "amount", "output"}

----------------------------------------------------------------------------
(* ControllerService.getQuotes and its collaborators *)

\* staleness window of the refresh controller (ms)
REFRESH_INTERVAL == 10000
\* time-to-live of a quote-cache entry (ms)
CACHE_TTL == 10000
\* chain ids with a configured provider
\* a chain id for which no provider is configured
OTHER_CHAIN == POLYGON + 1
ConfiguredChains == {ETHEREUM, POLYGON}
\* clock granularity and horizon of the model
TickMs == 5000
MaxTicks == 2
\* number of batches flushed in one behaviour
MaxBatches == 2

\* CacheService.generateKey(tokenIn, tokenOut, amount)
generateKey(tIn, tOut, amount) == <<tIn, tOut, amount>>

\* CacheService.getQuote(key) at time t: the live entry's quote, or absent
CacheLive(key, t) == key \in DOMAIN cache /\ t < cache[key].expiresAt

\* CacheService.setQuote(key, quote) at time t
setQuote(c, key, quote, t) ==
    [k \in DOMAIN c \cup {key} |->
        IF k = key THEN [quote |-> quote, expiresAt |-> t + CACHE_TTL] ELSE c[k]]

\* eviction of an expired entry on read
Evict(c, key) == [k \in DOMAIN c \ {key} |-> c[k]]

\* uniqueRequests: Array.from(new Map(requests.map(req => [req.id, req])).values()):
\* one request per id, at the position of the id's first occurrence, with
\* the value of its last occurrence
RECURSIVE LastWithId(_, _)
LastWithId(batch, id) ==
    LET r == batch[Len(batch)]
    IN IF r.id = id THEN r ELSE LastWithId(SubSeq(batch, 1, Len(batch) - 1), id)

RECURSIVE UniqueFrom(_, _, _)
UniqueFrom(batch, i, seen) ==
    IF i > Len(batch) THEN <<>>
    ELSE IF batch[i].id \in seen THEN UniqueFrom(batch, i + 1, seen)
    ELSE <<LastWithId(batch, batch[i].id)>>
             \o UniqueFrom(batch, i + 1, seen \cup {batch[i].id})

uniqueRequests(batch) == UniqueFrom(batch, 1, {})

\* new Set([tokenIn, tokenOut]) in insertion order
tokensToUpdate(request) ==
    IF request.tokenIn = request.tokenOut THEN <<request.tokenIn>>
    ELSE <<request.tokenIn, request.tokenOut>>

\* needsUpdate at time t: some token was never refreshed or is stale
needsUpdate(request, t) ==
    \E i \in 1..Len(tokensToUpdate(request)) :
        LET lastUpdate == lastUpdated[tokensToUpdate(request)[i]]
        IN lastUpdate = 0 \/ (t - lastUpdate) > REFRESH_INTERVAL

\* groupTokensByChain: the chain groups as Object.entries lists them
\* (integer keys in ascending order), each with its tokens in insertion order
groupTokensByChain(tokenAddresses) ==
    LET chainsOf == {tokenMetadata[tokenAddresses[i]] : i \in 1..Len(tokenAddresses)} \ {0}
        InChain(c) == SelectSeq(tokenAddresses, LAMBDA a : tokenMetadata[a] = c)
        RECURSIVE Asc(_)
        Asc(cs) == IF cs = {} THEN <<>>
                   ELSE LET m == CHOOSE x \in cs : \A y \in cs : x <= y
                        IN <<[chainId |-> m, addresses |-> InChain(m)]>> \o Asc(cs \ {m})
    IN Asc(chainsOf)

\* getAssociatedPools(tokenAddresses, chainId): the addresses of the indexed
\* pools that touch one of the tokens and whose two tokens have metadata
getAssociatedPools(tokenAddresses, chainId) ==
    LET relevantPools == IF chainId = ETHEREUM THEN poolIndex.ethereumPools
                         ELSE poolIndex.polygonPools
        addressSet == Range(tokenAddresses)
        Keep(e) == /\ (e.tokenA \in addressSet \/ e.tokenB \in addressSet)
                   /\ tokenMetadata[e.tokenA] # 0
                   /\ tokenMetadata[e.tokenB] # 0
        RECURSIVE Sel(_)
        Sel(es) == IF es = <<>> THEN <<>>
                   ELSE IF Keep(Head(es)) THEN <<Head(es).address>> \o Sel(Tail(es))
                   ELSE Sel(Tail(es))
    IN Sel(relevantPools)

\* calculateBestPrice(tokenIn, tokenOut, amountIn, pools): null for no pool,
\* else the dummy price 1 / (sqrtPriceX96 / 2^96)^2 of the first pool, kept
\* as the fraction Q192 / sqrtPriceX96^2
calculateBestPrice(poolData) ==
    IF Len(poolData) = 0 THEN [kind |-> "null"]
    ELSE [kind |-> "quote",
          price |-> <<Q192, poolData[1].sqrtPriceX96 * poolData[1].sqrtPriceX96>>,
          poolAddress |-> poolData[1].address]

ErrorPayload == [kind |-> "error"]

\* DispatcherService.dispatch(id, payload): the call is logged; the handle,
\* if still registered, is resolved and removed
Dispatch(d, id, payload, fromCache) ==
    [d EXCEPT ![id] = Append(@, [payload |-> payload, cached |-> fromCache, at |-> now,
                                 exp |-> IF fromCache
                                         THEN cache[generateKey(requests[idx].tokenIn,
                                                                requests[idx].tokenOut,
                                                                requests[idx].amount)].expiresAt
                                         ELSE 0])]

\* mutant of cachedQuoteFound: the stored entry is used without the expiry test
cachedQuoteStored(cacheKey) == cacheKey \in DOMAIN cache

\* `const cachedQuote = this.cacheService.getQuote(cacheKey); if (cachedQuote)`
cachedQuoteFound(cacheKey) == CacheLive(cacheKey, now)

\* getBatchPoolData(addresses, chainId) read with on-chain price sp
PoolData(addresses, sp) ==
    [i \in 1..Len(addresses) |-> [address |-> addresses[i], sqrtPriceX96 |-> sp]]

FetchSqrtPrices == {Q96, 2 * Q96}

\* what getBatchPoolData may return: [] on an aggregate failure, the data of
\* every address, or the data without the addresses whose decoding failed
FetchResults(addresses) ==
    {<<>>} \cup {PoolData(addresses, sp) : sp \in FetchSqrtPrices}
           \cup {SubSeq(PoolData(addresses, sp), 2, Len(addresses)) : sp \in FetchSqrtPrices}

\* RequestBatcher flush: getQuotes(batch) up to the first request
Flush(batch) ==
    /\ ppc \in {"idle", "done", "rejected"}
    /\ batches < MaxBatches
    /\ batches' = batches + 1
    /\ requests' = uniqueRequests(batch)
    /\ handles' = handles \cup {batch[i].id : i \in 1..Len(batch)}
    /\ dispatched' = [id \in {batch[i].id : i \in 1..Len(batch)} |-> <<>>]
    /\ fetches' = <<>>
    /\ idx' = 1
    /\ ppc' = "loop"
    /\ UNCHANGED <<tokenMetadata, poolIndex, cur, cache, lastUpdated, now, swapVars, infraVars>>

\* mutant of ProcessRequest: the cache-hit branch lacks its `continue`
ProcessRequestNoContinue ==
    /\ ppc = "loop"
    /\ idx <= Len(requests)
    /\ LET request == requests[idx]
           cacheKey == generateKey(request.tokenIn, request.tokenOut, request.amount)
           hit == cachedQuoteFound(cacheKey)
       IN /\ dispatched' = IF hit
                            THEN Dispatch(dispatched, request.id, cache[cacheKey].quote, TRUE)
                            ELSE dispatched
          /\ handles' = IF hit THEN handles \ {request.id} ELSE handles
          /\ cache' = IF hit THEN cache ELSE Evict(cache, cacheKey)
          /\ cur' = [key |-> cacheKey, t |-> now,
                     stale |-> needsUpdate(request, now),
                     groups |-> groupTokensByChain(tokensToUpdate(request)),
                     g |-> 1, query |-> <<>>,
                     expired |-> ~hit /\ cacheKey \in DOMAIN cache]
          /\ ppc' = "groups"
          /\ UNCHANGED idx
    /\ UNCHANGED <<tokenMetadata, poolIndex, requests, lastUpdated, now, fetches,
                   batches, swapVars, infraVars>>

\* the head of the loop body: cache lookup, hit dispatch, staleness test
ProcessRequest ==
    /\ ppc = "loop"
    /\ idx <= Len(requests)
    /\ LET request == requests[idx]
           cacheKey == generateKey(request.tokenIn, request.tokenOut, request.amount)
       IN IF cachedQuoteFound(cacheKey)
          THEN /\ dispatched' = Dispatch(dispatched, request.id, cache[cacheKey].quote, TRUE)
               /\ handles' = handles \ {request.id}
               /\ idx' = idx + 1
               /\ UNCHANGED <<cur, cache, ppc>>
          ELSE /\ cache' = Evict(cache, cacheKey)
               /\ cur' = [key |-> cacheKey, t |-> now,
                          stale |-> needsUpdate(request, now),
                          groups |-> groupTokensByChain(tokensToUpdate(request)),
                          g |-> 1, query |-> <<>>,
                          expired |-> cacheKey \in DOMAIN cache]
               /\ ppc' = "groups"
               /\ UNCHANGED <<dispatched, handles, idx>>
    /\ UNCHANGED <<tokenMetadata, poolIndex, requests, lastUpdated, now, fetches,
                   batches, swapVars, infraVars>>

\* `for (const [chainId, addresses] of Object.entries(tokensByChain))` up to
\* the await of getBatchPoolData
NextGroup ==
    /\ ppc = "groups"
    /\ IF cur.g > Len(cur.groups)
       THEN /\ idx' = idx + 1
            /\ ppc' = "loop"
            /\ UNCHANGED <<cur, fetches>>
       ELSE LET grp == cur.groups[cur.g]
                poolsToQuery == getAssociatedPools(grp.addresses, grp.chainId)
            IN IF Len(poolsToQuery) = 0
               THEN /\ cur' = [cur EXCEPT !.g = @ + 1]
                    /\ UNCHANGED <<idx, ppc, fetches>>
               ELSE /\ fetches' = Append(fetches, [req |-> idx, key |-> cur.key,
                                                   chainId |-> grp.chainId,
                                                   addresses |-> poolsToQuery,
                                                   stale |-> cur.stale,
                                                   returned |-> FALSE,
                                                   poolData |-> <<>>])
                    /\ cur' = [cur EXCEPT !.query = poolsToQuery]
                    /\ ppc' = IF grp.chainId \in ConfiguredChains
                              THEN "await" ELSE "rejected"
                    /\ idx' = idx
    /\ UNCHANGED <<tokenMetadata, poolIndex, requests, cache, lastUpdated, now,
                   handles, dispatched, batches, swapVars, infraVars>>

\* mutant of FetchReturn: lastUpdated is stamped before the quote is tested
FetchReturnStampsFirst(poolData) ==
    /\ ppc = "await"
    /\ LET request == requests[idx]
           grp == cur.groups[cur.g]
           haveMeta == tokenMetadata[request.tokenIn] # 0
                       /\ tokenMetadata[request.tokenOut] # 0
           quote == calculateBestPrice(poolData)
       IN IF haveMeta /\ quote.kind = "quote"
          THEN /\ cache' = setQuote(cache, cur.key, quote, now)
               /\ dispatched' = Dispatch(dispatched, request.id, quote, FALSE)
               /\ handles' = handles \ {request.id}
               /\ lastUpdated' =
                     IF cur.stale
                     THEN [a \in Tokens |-> IF a \in Range(grp.addresses)
                                            THEN cur.t ELSE lastUpdated[a]]
                     ELSE lastUpdated
          ELSE IF haveMeta /\ cur.stale
          THEN /\ dispatched' = Dispatch(dispatched, request.id, ErrorPayload, FALSE)
               /\ handles' = handles \ {request.id}
               /\ lastUpdated' = [a \in Tokens |-> IF a \in Range(grp.addresses)
                                                    THEN cur.t ELSE lastUpdated[a]]
               /\ UNCHANGED cache
          ELSE UNCHANGED <<cache, dispatched, handles, lastUpdated>>
    /\ fetches' = [fetches EXCEPT ![Len(fetches)].returned = TRUE,
                                   ![Len(fetches)].poolData = poolData]
    /\ cur' = [cur EXCEPT !.g = @ + 1, !.query = <<>>]
    /\ ppc' = "groups"
    /\ UNCHANGED <<tokenMetadata, poolIndex, requests, idx, now, batches, swapVars, infraVars>>

\* getBatchPoolData resolves with poolData: the rest of the group's body
FetchReturn(poolData) ==
    /\ ppc = "await"
    /\ LET request == requests[idx]
           grp == cur.groups[cur.g]
           haveMeta == tokenMetadata[request.tokenIn] # 0
                       /\ tokenMetadata[request.tokenOut] # 0
           quote == calculateBestPrice(poolData)
       IN IF haveMeta /\ quote.kind = "quote"
          THEN /\ cache' = setQuote(cache, cur.key, quote, now)
               /\ dispatched' = Dispatch(dispatched, request.id, quote, FALSE)
               /\ handles' = handles \ {request.id}
               /\ lastUpdated' =
                     IF cur.stale
                     THEN [a \in Tokens |-> IF a \in Range(grp.addresses)
                                            THEN cur.t ELSE lastUpdated[a]]
                     ELSE lastUpdated
          ELSE IF haveMeta /\ cur.stale
          THEN /\ dispatched' = Dispatch(dispatched, request.id, ErrorPayload, FALSE)
               /\ handles' = handles \ {request.id}
               /\ UNCHANGED <<cache, lastUpdated>>
          ELSE UNCHANGED <<cache, dispatched, handles, lastUpdated>>
    /\ fetches' = [fetches EXCEPT ![Len(fetches)].returned = TRUE,
                                   ![Len(fetches)].poolData = poolData]
    /\ cur' = [cur EXCEPT !.g = @ + 1, !.query = <<>>]
    /\ ppc' = "groups"
    /\ UNCHANGED <<tokenMetadata, poolIndex, requests, idx, now, batches, swapVars, infraVars>>

\* the loop is over: getQuotes resolves
BatchDone ==
    /\ ppc = "loop"
    /\ idx > Len(requests)
    /\ ppc' = "done"
    /\ cur' = [key |-> <<>>, t |-> 0, stale |-> FALSE, groups |-> <<>>, g |-> 0,
               query |-> <<>>, expired |-> FALSE]
    /\ UNCHANGED <<tokenMetadata, poolIndex, requests, idx, cache, lastUpdated,
                   now, handles, dispatched, fetches, batches, swapVars, infraVars>>

\* time passes while the pipeline is suspended or between two flushes
Tick ==
    /\ ppc \in {"idle", "done", "rejected", "await"}
    /\ now < (MaxTicks + 1) * TickMs
    /\ now' = now + TickMs
    /\ UNCHANGED <<tokenMetadata, poolIndex, requests, idx, cur, cache, lastUpdated,
                   handles, dispatched, fetches, batches, ppc, swapVars, infraVars>>

----------------------------------------------------------------------------
(* Spec: the pipeline over batches of at most two requests *)

Meta(a, b, c) == [t \in Tokens |-> IF t = "A" THEN a ELSE IF t = "B" THEN b ELSE c]

MetadataConfigs ==
    { Meta(POLYGON, POLYGON, POLYGON),
      Meta(ETHEREUM, POLYGON, POLYGON),
      Meta(POLYGON, POLYGON, 0),
      Meta(POLYGON, POLYGON, OTHER_CHAIN),
      Meta(0, 0, 0) }

IndexEntry(a, b, addr) == [tokenA |-> a, tokenB |-> b, address |-> addr]

FullIndex ==
    [ethereumPools |-> <<IndexEntry("A", "B", "e1")>>,
     polygonPools |-> <<IndexEntry("A", "B", "q1"), IndexEntry("A", "C", "q2")>>]
EmptyIndex == [ethereumPools |-> <<>>, polygonPools |-> <<>>]

\* the token metadata and pool index loaded by loadInitialData
LoadedConfigs ==
    {<<m, FullIndex>> : m \in MetadataConfigs}
        \cup {<<Meta(POLYGON, POLYGON, POLYGON), EmptyIndex>>}

Req(i, a, b) == [id |-> i, tokenIn |-> a, tokenOut |-> b, amount |-> 10]

\* one request; the same pair for another amount; two requests with the
\* same key; two with different keys, in both orders; two that share their id
Batches ==
    { <<Req(1, "A", "B")>>,
      <<[Req(1, "A", "B") EXCEPT !.amount = 2 * @]>>,
      <<Req(1, "A", "C")>>,
      <<Req(1, "A", "B"), Req(2, "A", "B")>>,
      <<Req(1, "A", "B"), Req(2, "A", "C")>>,
      <<Req(1, "A", "C"), Req(2, "A", "B")>>,
      <<Req(1, "A", "B"), Req(1, "A", "C")>> }

Init ==
    /\ SwapIdle
    /\ InfraIdle
    /\ \E c \in LoadedConfigs : tokenMetadata = c[1] /\ poolIndex = c[2]
    /\ requests = <<>>
    /\ idx = 0
    /\ cur = [key |-> <<>>, t |-> 0, stale |-> FALSE, groups |-> <<>>, g |-> 0,
              query |-> <<>>, expired |-> FALSE]
    /\ cache = <<>>
    /\ lastUpdated = [t \in Tokens |-> 0]
    /\ now = TickMs
    /\ handles = {}
    /\ dispatched = <<>>
    /\ fetches = <<>>
    /\ batches = 0
    /\ ppc = "idle"

Next ==
    \/ \E batch \in Batches : Flush(batch)
    \/ ProcessRequest
    \/ NextGroup
    \/ \E poolData \in FetchResults(cur.query) : FetchReturn(poolData)
    \/ BatchDone
    \/ Tick

Spec == Init /\ [][Next]_vars

KeyOf(request) == generateKey(request.tokenIn, request.tokenOut, request.amount)

\* C3: each pending request is dispatched at most once per batch, also when
\* its two tokens belong to different chain groups
C3_DispatchedOnce ==
    \A id \in DOMAIN dispatched : Len(dispatched[id]) <= 1

\* C4: when getQuotes has finished, every request of the batch has been
\* dispatched (with a quote or a failure); nothing dispatches it later
C4_AllResolved ==
    ppc = "done" =>
        \A i \in 1..Len(requests) : Len(dispatched[requests[i].id]) >= 1

\* C10: requests with the same key in one batch that are resolved are
\* resolved with the same quote, and the batch reader is called once (per
\* chain) for them
C10_SameQuoteOneFetch ==
    ppc = "done" =>
        \A i, j \in 1..Len(requests) :
            (i < j /\ KeyOf(requests[i]) = KeyOf(requests[j])) =>
                /\ (Len(dispatched[requests[i].id]) >= 1
                        /\ Len(dispatched[requests[j].id]) >= 1)
                    => dispatched[requests[i].id][1].payload
                           = dispatched[requests[j].id][1].payload
                /\ \A c \in ConfiguredChains :
                      Cardinality({k \in 1..Len(fetches) :
                                      /\ fetches[k].key = KeyOf(requests[i])
                                      /\ fetches[k].chainId = c}) <= 1

\* C9: a quote dispatched from the cache had not expired when it was
\* dispatched and is a quote that was put; a request whose cache entry had
\* expired is treated as a miss and its pools are fetched again
C9_ExpiredNeverServed ==
    /\ \A id \in DOMAIN dispatched :
          \A k \in 1..Len(dispatched[id]) :
              dispatched[id][k].cached =>
                  /\ dispatched[id][k].at < dispatched[id][k].exp
                  /\ dispatched[id][k].payload.kind = "quote"
    /\ (ppc = "groups" /\ cur.expired /\ cur.g > Len(cur.groups))
          => \E k \in 1..Len(fetches) : fetches[k].req = idx

\* C9 witness: an expired entry was found for the request under way, which
\* went on to fetch its pools, after an earlier request was served from cache
C9_Witness ==
    /\ ppc = "groups"
    /\ cur.expired
    /\ cur.g > Len(cur.groups)
    /\ \E k \in 1..Len(fetches) : fetches[k].req = idx
    /\ now >= TickMs + CACHE_TTL

\* C11: a request whose key has a live cache entry is dispatched with the
\* cached quote in the very step that looks it up, and is finished with:
\* the batch reader is not called for it and lastUpdated does not change
C11_CacheHitNoFetch ==
    [][(ppc = "loop" /\ idx <= Len(requests) /\ CacheLive(KeyOf(requests[idx]), now))
          => LET id == requests[idx].id
                 log == dispatched'[id]
             IN /\ Len(log) = Len(dispatched[id]) + 1
                /\ log[Len(log)].payload = cache[KeyOf(requests[idx])].quote
                /\ fetches' = fetches
                /\ lastUpdated' = lastUpdated
                /\ idx' = idx + 1
                /\ ppc' = "loop"]_vars

\* C11 witness: a second batch served wholly from the cache: a cached
\* dispatch, refreshed tokens and no fetch in the batch
C11_Witness ==
    /\ ppc = "done"
    /\ batches = MaxBatches
    /\ fetches = <<>>
    /\ \E id \in DOMAIN dispatched :
          Len(dispatched[id]) = 1 /\ dispatched[id][1].cached
    /\ \E t \in Tokens : lastUpdated[t] > 0

\* C20: a request for which the batch reader returned the empty list is
\* dispatched a failure and no quote, stale or not, by the time getQuotes ends
C20_EmptyFetchFails ==
    ppc = "done" =>
        \A k \in 1..Len(fetches) :
            (fetches[k].returned /\ fetches[k].poolData = <<>>) =>
                LET log == dispatched[requests[fetches[k].req].id]
                IN /\ Len(log) >= 1
                   /\ \A n \in 1..Len(log) : log[n].payload.kind = "error"

\* C23: the batch reader is called for a request only if one of its tokens
\* was never refreshed or is stale
C23_FetchOnlyIfStale ==
    \A k \in 1..Len(fetches) : fetches[k].stale

\* C24: while a fetch of the batch is in flight, every request of the batch
\* that the cache can satisfy has already been dispatched
C24_CacheFirst ==
    ppc = "await" =>
        \A j \in 1..Len(requests) :
            (KeyOf(requests[j]) # cur.key /\ CacheLive(KeyOf(requests[j]), now))
                => Len(dispatched[requests[j].id]) >= 1

\* the step dispatches a computed quote for the request under way
QuoteDispatched ==
    /\ ppc = "await"
    /\ LET id == requests[idx].id
       IN /\ Len(dispatched'[id]) = Len(dispatched[id]) + 1
          /\ dispatched'[id][Len(dispatched'[id])].payload.kind = "quote"
          /\ ~dispatched'[id][Len(dispatched'[id])].cached

\* C25: a cache entry is written, and a lastUpdated timestamp changed, only
\* in a step that dispatches the computed quote; a fetch that returned
\* nothing leaves the cache and the timestamps as they were
C25_FailureWritesNothing ==
    [][/\ (\E key \in DOMAIN cache' : key \notin DOMAIN cache \/ cache'[key] # cache[key])
           => (QuoteDispatched /\ cur.key \in DOMAIN cache'
               /\ cache'[cur.key].quote.kind = "quote")
       /\ (lastUpdated' # lastUpdated) => QuoteDispatched
       /\ (ppc = "await" /\ ppc' = "groups"
              /\ fetches'[Len(fetches')].poolData = <<>>)
           => (cache' = cache /\ lastUpdated' = lastUpdated)]_vars

\* C25 witness: a stale request whose fetch returned nothing was dispatched
\* the error, with the cache still empty and no token stamped
C25_Witness ==
    /\ ppc = "groups"
    /\ fetches # <<>>
    /\ fetches[Len(fetches)].returned
    /\ fetches[Len(fetches)].stale
    /\ fetches[Len(fetches)].poolData = <<>>
    /\ \E n \in 1..Len(dispatched[requests[idx].id]) :
          dispatched[requests[idx].id][n].payload = ErrorPayload
    /\ cache = <<>>
    /\ \A t \in Tokens : lastUpdated[t] = 0

\* C26: when the fetch for a request raises, that request is dispatched a
\* failure and every later request of the batch is still dispatched
C26_FetchErrorIsolated ==
    ppc = "rejected" =>
        /\ \E n \in 1..Len(dispatched[requests[idx].id]) :
              dispatched[requests[idx].id][n].payload.kind = "error"
        /\ \A j \in (idx + 1)..Len(requests) :
              Len(dispatched[requests[j].id]) >= 1

----------------------------------------------------------------------------
(* SpecRpc: RpcConfig.getNextRpcEndpoint called for any chain, any number of *)
(* times                                                                     *)

MaxRpcCalls == 5

\* a chain id for which no provider has an endpoint
UNSUPPORTED_CHAIN == 56

RpcChains == {ETHEREUM, POLYGON, UNSUPPORTED_CHAIN}

\* endpoints are modelled by the chain ids that have a url
providers ==
    << [name |-> "Infura", endpoints |-> {ETHEREUM, POLYGON}],
       [name |-> "Alchemy", endpoints |-> {ETHEREUM, POLYGON}] >>

\* this.roundRobinCounters.get(chainId) || 0
CounterOf(counters, chainId) ==
    IF chainId \in DOMAIN counters THEN counters[chainId] ELSE 0

\* this.roundRobinCounters.set(chainId, value)
MapSet(counters, chainId, value) ==
    [c \in DOMAIN counters \cup {chainId} |->
        IF c = chainId THEN value ELSE counters[c]]

InitRpc ==
    /\ SwapIdle
    /\ PipeIdle
    /\ InfraIdle

getNextRpcEndpointNoWrap(chainId) ==
    /\ Len(rpcLog) < MaxRpcCalls
    /\ LET counter == CounterOf(roundRobinCounters, chainId)
           nextIndex == counter % Len(providers)
           provider == providers[nextIndex + 1]
       IN IF chainId \notin provider.endpoints
          THEN /\ rpcLog' = Append(rpcLog, [chainId |-> chainId, returned |-> "Error",
                                            before |-> roundRobinCounters,
                                            after |-> roundRobinCounters])
               /\ UNCHANGED roundRobinCounters
          ELSE /\ roundRobinCounters' = MapSet(roundRobinCounters, chainId, counter + 1)
               /\ rpcLog' = Append(rpcLog, [chainId |-> chainId, returned |-> provider.name,
                                            before |-> roundRobinCounters,
                                            after |-> roundRobinCounters'])
    /\ UNCHANGED <<swapVars, pipeVars, logs, logged, recent>>

\* one call getNextRpcEndpoint(chainId); rpcLog records what it returned (or
\* that it threw) and the counters before and after it
getNextRpcEndpoint(chainId) ==
    /\ Len(rpcLog) < MaxRpcCalls
    /\ LET counter == CounterOf(roundRobinCounters, chainId)
           nextIndex == counter % Len(providers)
           provider == providers[nextIndex + 1]
       IN IF chainId \notin provider.endpoints
          THEN /\ rpcLog' = Append(rpcLog, [chainId |-> chainId, returned |-> "Error",
                                            before |-> roundRobinCounters,
                                            after |-> roundRobinCounters])
               /\ UNCHANGED roundRobinCounters
          ELSE /\ roundRobinCounters' =
                      MapSet(roundRobinCounters, chainId, (counter + 1) % Len(providers))
               /\ rpcLog' = Append(rpcLog, [chainId |-> chainId, returned |-> provider.name,
                                            before |-> roundRobinCounters,
                                            after |-> roundRobinCounters'])
    /\ UNCHANGED <<swapVars, pipeVars, logs, logged, recent>>

NextRpc == \E chainId \in RpcChains : getNextRpcEndpoint(chainId)

SpecRpc == InitRpc /\ [][NextRpc]_vars

\* the chains for which some provider has an endpoint
SupportedChains == UNION {providers[i].endpoints : i \in 1..Len(providers)}

\* number of the calls before the k-th of rpcLog made for its chain
CallsBefore(k) ==
    Cardinality({j \in 1..(k - 1) : rpcLog[j].chainId = rpcLog[k].chainId})

\* C29: for a supported chain the k-th call (counted from 0) returns
\* provider k mod n and leaves the chain's counter in [0, n) and the other
\* chains' counters unchanged; a call for an unsupported chain throws and
\* changes no counter
C29_RoundRobin ==
    \A k \in 1..Len(rpcLog) :
        LET e == rpcLog[k]
            n == Len(providers)
        IN IF e.chainId \in SupportedChains
           THEN /\ e.returned = providers[(CallsBefore(k) % n) + 1].name
                /\ e.after[e.chainId] \in 0..(n - 1)
                /\ DOMAIN e.after = DOMAIN e.before
                /\ \A c \in DOMAIN e.before :
                       c # e.chainId => e.after[c] = e.before[c]
           ELSE /\ e.returned = "Error"
                /\ e.after = e.before

\* C29 witness: a chain was called three times (the cycle wrapped), another
\* chain once in between, and an unsupported chain threw
C29_Witness ==
    /\ Len(rpcLog) = MaxRpcCalls
    /\ Cardinality({k \in 1..Len(rpcLog) : rpcLog[k].chainId = ETHEREUM}) >= 3
    /\ \E k \in 2..(Len(rpcLog) - 1) :
          /\ rpcLog[k].chainId = POLYGON
          /\ rpcLog[k - 1].chainId = ETHEREUM
          /\ rpcLog[k + 1].chainId = ETHEREUM
    /\ \E k \in 1..Len(rpcLog) : rpcLog[k].returned = "Error"
    /\ roundRobinCounters[ETHEREUM] = 1
    /\ roundRobinCounters[POLYGON] = 1

----------------------------------------------------------------------------
(* SpecLog: ApiCallLogger under any sequence of log, logSuccess, logError,  *)
(* clear and GET /api/logs/recent                                           *)

\* capacity of the rolling buffer, scaled down from the 10000 of the source
MAX_LOGS == 3
\* entries logged between two clear calls
MaxLogged == 5

DEFAULT_COUNT == 50

\* Array.prototype.slice(start) on a sequence: a negative start counts from
\* the end, and -0 is 0
Slice(arr, start) ==
    LET len == Len(arr)
        k == IF start < 0
             THEN (IF len + start > 0 THEN len + start ELSE 0)
             ELSE (IF start < len THEN start ELSE len)
    IN SubSeq(arr, k + 1, len)

\* Array.prototype.shift
Shift(arr) == IF arr = <<>> THEN arr ELSE Tail(arr)

\* the buffer after log(entry)
Pushed(buffer, logEntry) ==
    Append(IF Len(buffer) >= MAX_LOGS THEN Shift(buffer) ELSE buffer, logEntry)

\* getRecentLogs(count)
getRecentLogs(count) == Slice(logs, -count)

\* ?count= of GET /api/logs/recent: absent, or a string of digits
CountTexts == {<<>>} \cup {<<Digits[d + 1]>> : d \in 0..(MAX_LOGS + 1)}

\* req.query.count ? Number(req.query.count) : 50
CountOf(text) == IF text = <<>> THEN DEFAULT_COUNT ELSE DigitsValue(text, 0)

InitLog ==
    /\ SwapIdle
    /\ PipeIdle
    /\ InfraIdle

\* log(entry): the entry gets its id (here its number since the last clear)
log(entry) ==
    /\ Len(logged) < MaxLogged
    /\ LET logEntry == [id |-> Len(logged) + 1,
                        requestMethod |-> entry.requestMethod,
                        statusCode |-> entry.statusCode]
       IN /\ logs' = Pushed(logs, logEntry)
          /\ logged' = Append(logged, logEntry)
    /\ UNCHANGED <<swapVars, pipeVars, roundRobinCounters, rpcLog, recent>>

LogDirect == log([requestMethod |-> "GET", statusCode |-> 200])

logSuccess == log([requestMethod |-> "RPC_CALL", statusCode |-> 200])

logError == log([requestMethod |-> "RPC_CALL", statusCode |-> 500])

clear ==
    /\ logs' = <<>>
    /\ logged' = <<>>
    /\ UNCHANGED <<swapVars, pipeVars, roundRobinCounters, rpcLog, recent>>

\* GET /api/logs/recent?count=text
GetLogsRecent ==
    /\ \E text \in CountTexts :
          recent' = [asked |-> TRUE, count |-> CountOf(text),
                     entries |-> getRecentLogs(CountOf(text))]
    /\ UNCHANGED <<swapVars, pipeVars, roundRobinCounters, rpcLog, logs, logged>>

NextLog ==
    \/ LogDirect
    \/ logSuccess
    \/ logError
    \/ clear
    \/ GetLogsRecent

SpecLog == InitLog /\ [][NextLog]_vars

\* the last n elements of a sequence, all of it when it is shorter
LastN(arr, n) ==
    IF n >= Len(arr) THEN arr ELSE SubSeq(arr, Len(arr) - n + 1, Len(arr))

\* C30: the logger holds at most MAX_LOGS entries, they are the most
\* recently logged ones in insertion order, and getRecentLogs(count) returns
\* at most count entries, the last count logged, for every count >= 0
C30_BoundedRecent ==
    /\ [](Len(logs) <= MAX_LOGS /\ logs = LastN(logged, MAX_LOGS))
    /\ [][recent' # recent =>
            /\ Len(recent'.entries) <= recent'.count
            /\ recent'.entries = LastN(logs, recent'.count)]_vars

====
